---- MODULE Spec2Model ----
(***************************************************************************)
(* A model of the image-formation core of cryojax: the crop/pad routines   *)
(* of image/_edges.py, the cosine masks of image/operators/_masks.py, the  *)
(* half-spectrum reduction of simulator/_integrators/_nufft_project.py,    *)
(* the independent Fourier-mode Gaussian of                                *)
(* inference/distributions/_gaussian_distributions.py and the ImagePipeline*)
(* of simulator/image.py.                                                  *)
(*                                                                         *)
(* Every routine is a pure function, so each component has its own         *)
(* specification: Init draws the inputs from bounded sets and the actions  *)
(* are the calls, one call per behaviour.  Arrays are indexed from 0 as in *)
(* the source.                                                             *)
(***************************************************************************)
EXTENDS Integers, Sequences, FiniteSets, TLC

VARIABLES
    \* image/_edges.py
    image,        \* the array handed to the crop/pad routines
    edgeOp,       \* the routine last called ("none" before any call)
    edgeArgs,     \* its arguments (shape, center, intermediate shape)
    edgeOut,      \* what it returned
    edgeWarned,   \* whether it emitted warnings.warn

    \* image/operators/_masks.py
    grid,         \* coordinate grid: Ny x Nx array of <<x, y>>
    maskKind,     \* "none", "circular", "square" or "custom"
    maskSize,     \* radius (circular) or side length (square)
    rolloff,      \* rolloff width
    buffer,       \* the buffer the mask constructor stored

    \* simulator/_integrators/_nufft_project.py
    cloud,        \* the point cloud: [weights, coordinate_list]
    nufftShape,   \* the target shape (M1, M2)
    projection,   \* what project_with_nufft returned (NoArray before the call)

    \* inference/distributions/_gaussian_distributions.py
    gConfig,      \* pipeline.integrator.config: [shape, padded_shape]
    rendering,    \* pipeline.render(normalize=True, get_real=False)
    variance,     \* IndependentFourierGaussian.variance (an operator's name)
    contrast_scale, \* IndependentFourierGaussian.contrast_scale
    observed,     \* the observed half-spectrum handed to log_likelihood
    gaussOp,      \* the method last called ("none" before any call)
    gaussOut,     \* what log_likelihood returned
    contrastArg,  \* the contrast_scale argument of __init__ (Nothing for None)
    sampleArgs,   \* the arguments of render / sample: [key, get_real]
    gaussNoise,   \* the array sample hands to crop_and_apply_operators
    gaussImage,   \* the image render or sample returned

    \* simulator/image.py
    pipeline,     \* the ImagePipeline: [filters, masks, observed,
                  \*   detector_pixel_size, resolution]
    pipeOp,       \* the method last called and its arguments
    pipeOut       \* how it ended: the image returned and the operations
                  \*   applied on the way, in order, or the exception raised

edgeVars == <<image, edgeOp, edgeArgs, edgeOut, edgeWarned>>
maskVars == <<grid, maskKind, maskSize, rolloff, buffer>>
nufftVars == <<cloud, nufftShape, projection>>
gaussVars == <<gConfig, rendering, variance, contrast_scale, observed, gaussOp,
               gaussOut, contrastArg, sampleArgs, gaussNoise, gaussImage>>
pipeVars == <<pipeline, pipeOp, pipeOut>>
vars == <<edgeVars, maskVars, nufftVars, gaussVars, pipeVars>>

None == "None"

(***************************************************************************)
(* Bounds of the model.                                                    *)
(***************************************************************************)
\* largest image side handed to the crop/pad routines
MaxDim == 4
\* largest requested (crop or pad) side
MaxShape == 5

(***************************************************************************)
(* Helpers for Python's integer and slice semantics.                       *)
(***************************************************************************)
Max(a, b) == IF a >= b THEN a ELSE b
Min(a, b) == IF a <= b THEN a ELSE b
Abs(a) == IF a >= 0 THEN a ELSE -a

\* One bound of a[lo:hi] on an axis of length n: a negative bound counts
\* from the end, and every bound is clipped to [0, n].
PySliceBound(k, n) == IF k < 0 THEN Max(k + n, 0) ELSE Min(k, n)

\* a[lo:hi] on an axis of length n: <<first index, length>>.
PySlice(lo, hi, n) ==
    LET a == PySliceBound(lo, n)
        b == PySliceBound(hi, n)
    IN  <<a, Max(b - a, 0)>>

(***************************************************************************)
(* 2D arrays: a shape <<Ny, Nx>> and the entries, row index first.         *)
(***************************************************************************)
Arr2(ny, nx, F(_, _)) ==
    [shape |-> <<ny, nx>>,
     data  |-> [p \in (0 .. ny - 1) \X (0 .. nx - 1) |-> F(p[1], p[2])]]

\* An Optional argument: Nothing is Python's None, Some(x) a given value.
Nothing == {}
Some(x) == {x}
TheValue(opt) == CHOOSE x \in opt : TRUE

\* The value of an array variable before the call that sets it.
NoArray == [shape |-> <<0, 0>>, data |-> <<>>]

\* a[r0 : r0 + nr, c0 : c0 + nc]
SubArray(a, rowSl, colSl) ==
    LET F(i, j) == a.data[<<rowSl[1] + i, colSl[1] + j>>]
    IN  Arr2(rowSl[2], colSl[2], F)

\* The test image of shape (ny, nx): pixel (i, j) holds its own row-major
\* position, counted from 1, so that no two pixels are equal and none
\* equals the pad fill.
LabelledImage(ny, nx) ==
    LET F(i, j) == i * nx + j + 1
    IN  Arr2(ny, nx, F)

Images == {LabelledImage(ny, nx) : ny \in 1 .. MaxDim, nx \in 1 .. MaxDim}
Shapes == (0 .. MaxShape) \X (0 .. MaxShape)

(***************************************************************************)
(* 3D arrays: a shape <<Nz, Ny, Nx>> and the entries.                      *)
(***************************************************************************)
\* largest side of a volume handed to the crop/pad routines
MaxVolDim == 3
\* largest side of a shape requested for a volume
MaxVolShape == 4

Arr3(nz, ny, nx, F(_, _, _)) ==
    [shape |-> <<nz, ny, nx>>,
     data  |-> [p \in (0 .. nz - 1) \X (0 .. ny - 1) \X (0 .. nx - 1)
                  |-> F(p[1], p[2], p[3])]]

\* a[z0 : z0 + nz, y0 : y0 + ny, x0 : x0 + nx]
SubVolume(a, zSl, ySl, xSl) ==
    LET F(k, i, j) == a.data[<<zSl[1] + k, ySl[1] + i, xSl[1] + j>>]
    IN  Arr3(zSl[2], ySl[2], xSl[2], F)

\* The test volume of shape (nz, ny, nx): each voxel holds its own
\* row-major position, counted from 1.
LabelledVolume(nz, ny, nx) ==
    LET F(k, i, j) == (k * ny + i) * nx + j + 1
    IN  Arr3(nz, ny, nx, F)

Volumes == {LabelledVolume(nz, ny, nx) :
               nz \in 1 .. MaxVolDim, ny \in 1 .. MaxVolDim, nx \in 1 .. MaxVolDim}
VolumeShapes == (0 .. MaxVolShape) \X (0 .. MaxVolShape) \X (0 .. MaxVolShape)

\* The shapes a call may request for an array: one length per axis.
ShapesFor(a) == IF Len(a.shape) = 2 THEN Shapes ELSE VolumeShapes

\* Requests the image-only routines refuse: a shape of three lengths for an
\* image, any shape for a volume.
RefusedShapes(a) ==
    IF Len(a.shape) = 2 THEN {<<1, 1, 1>>}
    ELSE {<<1, 1>>, <<1, 1, 1>>, <<3, 3, 3>>}

\* What an image-only routine may be asked for: a 2D shape for an image, and
\* the requests it refuses.
ImageRequests(a) ==
    (IF Len(a.shape) = 2 THEN Shapes ELSE {}) \cup RefusedShapes(a)

\* Whether the call hands a 2D image and a shape of two lengths.
IsImageRequest(a, shape) == Len(a.shape) = 2 /\ Len(shape) = 2

(***************************************************************************)
(* image/_edges.py                                                         *)
(***************************************************************************)
\* CropSliceBounds without the h%2 term: an odd crop loses its last entry.
CropSliceBounds_NoParity(n, h) ==
    LET c == n \div 2
    IN  <<c - (h \div 2), c + (h \div 2)>>

\* CropSliceBounds with the center at (n + 1)//2.
CropSliceBounds_CeilCenter(n, h) ==
    LET c == (n + 1) \div 2
    IN  <<c - (h \div 2), c + (h \div 2) + (h % 2)>>

\* The slice crop_to_shape takes on an axis of length n for a requested
\* length h: [c - h//2 : c + h//2 + h%2] with c = n//2.
CropSliceBounds(n, h) ==
    LET c == n \div 2
    IN  <<c - (h \div 2), c + (h \div 2) + (h % 2)>>

\* crop_to_shape, branch len(shape) == 3.
CropVolume(volume, shape) ==
    LET Nz == volume.shape[1]
        Ny == volume.shape[2]
        Nx == volume.shape[3]
        zb == CropSliceBounds(Nz, shape[1])
        yb == CropSliceBounds(Ny, shape[2])
        xb == CropSliceBounds(Nx, shape[3])
    IN  SubVolume(volume, PySlice(zb[1], zb[2], Nz), PySlice(yb[1], yb[2], Ny),
                          PySlice(xb[1], xb[2], Nx))

\* crop_to_shape: the 2D branch, the 3D branch, ValueError otherwise.
crop_to_shape(img, shape) ==
    LET Ny == img.shape[1]
        Nx == img.shape[2]
        h  == shape[1]
        w  == shape[2]
        rb == CropSliceBounds(Ny, h)
        cb == CropSliceBounds(Nx, w)
    IN  IF Len(img.shape) \notin {2, 3} \/ Len(shape) # Len(img.shape)
        THEN "ValueError"
        ELSE IF Len(shape) = 2
        THEN SubArray(img, PySlice(rb[1], rb[2], Ny), PySlice(cb[1], cb[2], Nx))
        ELSE CropVolume(img, shape)

\* PadWidths with the extra unit of an odd pad on the low side.
PadWidths_ExtraLow(n, t) ==
    LET pad == t - n
    IN  <<(pad \div 2) + (pad % 2), pad \div 2>>

\* The (low, high) padding pad_to_shape gives an axis of length n for a
\* target length t.
PadWidths(n, t) ==
    LET pad == t - n
    IN  <<pad \div 2, (pad \div 2) + (pad % 2)>>

\* jnp.pad(image, padding) in its default mode: constant, fill 0.
\* A negative pad width is a ValueError.
jnp_pad(img, padding) ==
    LET yl == padding[1][1]
        yh == padding[1][2]
        xl == padding[2][1]
        xh == padding[2][2]
        Ny == img.shape[1]
        Nx == img.shape[2]
        F(i, j) == IF /\ i >= yl /\ i < yl + Ny
                      /\ j >= xl /\ j < xl + Nx
                   THEN img.data[<<i - yl, j - xl>>]
                   ELSE 0
    IN  IF yl < 0 \/ yh < 0 \/ xl < 0 \/ xh < 0
        THEN "ValueError"
        ELSE Arr2(yl + Ny + yh, xl + Nx + xh, F)

\* jnp.pad(volume, padding) for three axes, in its default mode.
jnp_pad3(vol, padding) ==
    LET zl == padding[1][1]
        yl == padding[2][1]
        xl == padding[3][1]
        Nz == vol.shape[1]
        Ny == vol.shape[2]
        Nx == vol.shape[3]
        F(k, i, j) == IF /\ k >= zl /\ k < zl + Nz
                         /\ i >= yl /\ i < yl + Ny
                         /\ j >= xl /\ j < xl + Nx
                      THEN vol.data[<<k - zl, i - yl, j - xl>>]
                      ELSE 0
    IN  IF \E a \in 1 .. 3 : padding[a][1] < 0 \/ padding[a][2] < 0
        THEN "ValueError"
        ELSE Arr3(zl + Nz + padding[1][2], yl + Ny + padding[2][2],
                  xl + Nx + padding[3][2], F)

\* pad_to_shape: the 2D branch, the 3D branch, ValueError otherwise.
pad_to_shape(img, shape) ==
    IF Len(img.shape) \notin {2, 3} \/ Len(shape) # Len(img.shape)
    THEN "ValueError"
    ELSE IF Len(shape) = 2
    THEN jnp_pad(img, <<PadWidths(img.shape[1], shape[1]),
                        PadWidths(img.shape[2], shape[2])>>)
    ELSE jnp_pad3(img, <<PadWidths(img.shape[1], shape[1]),
                         PadWidths(img.shape[2], shape[2]),
                         PadWidths(img.shape[3], shape[3])>>)

\* The slice bounds of crop_to_shape_with_center: <<y0, yn, x0, xn>>.
\* xn is computed from yc and h, yn from xc and w, as in the source.
CenterSliceBounds(img, shape, center) ==
    LET xc == center[1]
        yc == center[2]
        h  == shape[1]
        w  == shape[2]
        x0 == Max(xc - (w \div 2), 0)
        y0 == Max(yc - (h \div 2), 0)
        xn == Min(yc + (h \div 2) + (h % 2), img.shape[2] - 1)
        yn == Min(xc + (w \div 2) + (w % 2), img.shape[1] - 1)
    IN  <<y0, yn, x0, xn>>

\* crop_to_shape_with_center: ValueError unless image.ndim is 2 and
\* len(shape) is 2, image[y0:yn, x0:xn] otherwise.
crop_to_shape_with_center(img, shape, center) ==
    LET b == CenterSliceBounds(img, shape, center)
    IN  IF Len(img.shape) # 2 THEN "ValueError"
        ELSE IF Len(shape) # 2 THEN "ValueError"
        ELSE SubArray(img, PySlice(b[1], b[2], img.shape[1]),
                           PySlice(b[3], b[4], img.shape[2]))

\* The image padded up to the larger of the two lengths on each axis and
\* never cropped.
resize_with_crop_or_pad_NoCrop(img, shape) ==
    pad_to_shape(img, <<Max(img.shape[1], shape[1]),
                        Max(img.shape[2], shape[2])>>)

\* resize_with_crop_or_pad: ValueError unless image.ndim is 2 and len(shape)
\* is 2.
resize_with_crop_or_pad(img, shape) ==
    LET N1 == img.shape[1]
        N2 == img.shape[2]
        M1 == shape[1]
        M2 == shape[2]
    IN  IF Len(img.shape) # 2 \/ Len(shape) # 2 THEN "ValueError"
        ELSE IF N1 >= M1 /\ N2 >= M2 THEN crop_to_shape(img, shape)
        ELSE IF N1 <= M1 /\ N2 <= M2 THEN pad_to_shape(img, shape)
        ELSE IF N1 <= M1 /\ N2 >= M2
             THEN pad_to_shape(crop_to_shape(img, <<N1, M2>>), <<M1, M2>>)
        ELSE pad_to_shape(crop_to_shape(img, <<M1, N2>>), <<M1, M2>>)

\* The value of gaussOut before any call.
NoLogLikelihood == [npix |-> 0, quad |-> 0, logs |-> <<>>]

\* The values of sampleArgs and gaussImage before any call.
NoSampleArgs == [key |-> 0, get_real |-> FALSE]
NoGaussImage == [signal |-> NoArray, noise |-> NoArray, get_real |-> FALSE]

\* A symbolic image: the operation that made it, the name of the filter or
\* mask applied, the pixel size or resolution it was evaluated at (0 when
\* the operation takes none) and the images it was made from.
Img(op, name, at, args) == [op |-> op, name |-> name, at |-> at, args |-> args]
NoImage == Img("none", "", 0, <<>>)

\* The value of pipeOut before any call.
NoOutcome == [kind |-> "none", exc |-> "", img |-> NoImage, trace |-> <<>>]

IdlePipeline ==
    /\ pipeline = [filters |-> <<>>, masks |-> <<>>, observed |-> Nothing,
                   detector_pixel_size |-> Nothing, resolution |-> 1]
    /\ pipeOp = [entry |-> "none", view |-> FALSE, real |-> FALSE]
    /\ pipeOut = NoOutcome

IdleEdges ==
    /\ image = LabelledImage(1, 1)
    /\ edgeOp = "none"
    /\ edgeArgs = <<>>
    /\ edgeOut = NoArray
    /\ edgeWarned = FALSE

IdleMask ==
    /\ grid = NoArray
    /\ maskKind = "none"
    /\ maskSize = 0
    /\ rolloff = 1
    /\ buffer = NoArray

IdleNufft ==
    /\ cloud = None
    /\ nufftShape = <<1, 1>>
    /\ projection = NoArray

IdleGauss ==
    /\ gConfig = [shape |-> <<1, 1>>, padded_shape |-> <<1, 1>>]
    /\ rendering = NoArray
    /\ variance = "Constant1"
    /\ contrast_scale = 1
    /\ observed = NoArray
    /\ gaussOp = "none"
    /\ gaussOut = NoLogLikelihood
    /\ contrastArg = Nothing
    /\ sampleArgs = NoSampleArgs
    /\ gaussNoise = NoArray
    /\ gaussImage = NoGaussImage

InitEdges ==
    /\ image \in Images \cup Volumes
    /\ edgeOp = "none"
    /\ edgeArgs = <<>>
    /\ edgeOut = NoArray
    /\ edgeWarned = FALSE
    /\ IdleMask
    /\ IdleNufft
    /\ IdleGauss
    /\ IdlePipeline

\* crop_to_shape(image, shape) for a shape that fits in the image.
CallCrop ==
    \E shape \in ShapesFor(image) :
        /\ \A a \in 1 .. Len(shape) : shape[a] <= image.shape[a]
        /\ edgeOp = "none"
        /\ edgeOp' = "crop_to_shape"
        /\ edgeArgs' = [shape |-> shape]
        /\ edgeOut' = crop_to_shape(image, shape)
        /\ edgeWarned' = FALSE
        /\ UNCHANGED <<image, maskVars, nufftVars, gaussVars, pipeVars>>

\* pad_to_shape(image, shape) for a shape that holds the image.
CallPad ==
    \E shape \in ShapesFor(image) :
        /\ \A a \in 1 .. Len(shape) : shape[a] >= image.shape[a]
        /\ edgeOp = "none"
        /\ edgeOp' = "pad_to_shape"
        /\ edgeArgs' = [shape |-> shape]
        /\ edgeOut' = pad_to_shape(image, shape)
        /\ edgeWarned' = FALSE
        /\ UNCHANGED <<image, maskVars, nufftVars, gaussVars, pipeVars>>

\* crop_to_shape(pad_to_shape(image, bigger), image.shape)
CallPadThenCrop ==
    \E bigger \in Shapes :
        /\ Len(image.shape) = 2
        /\ bigger[1] >= image.shape[1]
        /\ bigger[2] >= image.shape[2]
        /\ edgeOp = "none"
        /\ edgeOp' = "pad_then_crop"
        /\ edgeArgs' = [shape |-> image.shape, bigger |-> bigger]
        /\ edgeOut' = crop_to_shape(pad_to_shape(image, bigger), image.shape)
        /\ edgeWarned' = FALSE
        /\ UNCHANGED <<image, maskVars, nufftVars, gaussVars, pipeVars>>

\* crop_to_shape_with_center(image, shape, center), center inside the image.
\* A call that raises ValueError never reaches warnings.warn.
CallCropWithCenter ==
    \E shape \in ImageRequests(image),
       xc \in 0 .. MaxDim - 1, yc \in 0 .. MaxDim - 1 :
        /\ xc < image.shape[2]
        /\ yc < image.shape[1]
        /\ edgeOp = "none"
        /\ edgeOp' = "crop_to_shape_with_center"
        /\ edgeArgs' = [shape |-> shape, center |-> <<xc, yc>>]
        /\ edgeOut' = crop_to_shape_with_center(image, shape, <<xc, yc>>)
        /\ edgeWarned' =
               (/\ IsImageRequest(image, shape)
                /\ crop_to_shape_with_center(image, shape, <<xc, yc>>).shape
                      # shape)
        /\ UNCHANGED <<image, maskVars, nufftVars, gaussVars, pipeVars>>

\* resize_with_crop_or_pad(image, shape)
CallResize ==
    \E shape \in ImageRequests(image) :
        /\ edgeOp = "none"
        /\ edgeOp' = "resize_with_crop_or_pad"
        /\ edgeArgs' = [shape |-> shape]
        /\ edgeOut' = resize_with_crop_or_pad(image, shape)
        /\ edgeWarned' = FALSE
        /\ UNCHANGED <<image, maskVars, nufftVars, gaussVars, pipeVars>>

NextEdges ==
    \/ CallCrop
    \/ CallPad
    \/ CallPadThenCrop
    \/ CallCropWithCenter
    \/ CallResize

SpecEdges == InitEdges /\ [][NextEdges]_vars

(***************************************************************************)
(* Claims about image/_edges.py, checked under SpecEdges.                  *)
(***************************************************************************)
IsSquareOdd(shape) == shape[1] = shape[2] /\ shape[1] % 2 = 1
IsSquare(shape) == shape[1] = shape[2]

\* C1 (as stated): for every square image with odd side N and every
\* bigger_shape (M, M) with M >= N,
\* crop_to_shape(pad_to_shape(img, bigger_shape), img.shape) == img.
C1_RoundTripOriginal ==
    (/\ edgeOp = "pad_then_crop"
     /\ IsSquareOdd(image.shape)
     /\ IsSquare(edgeArgs.bigger))
    => edgeOut = image

\* img moved one pixel towards index 0 on each axis, the last row and
\* column taking the pad fill.
ShiftedByOne(img) ==
    LET F(i, j) == IF i + 1 < img.shape[1] /\ j + 1 < img.shape[2]
                   THEN img.data[<<i + 1, j + 1>>]
                   ELSE 0
    IN  Arr2(img.shape[1], img.shape[2], F)

\* C1 (amended): for every square image with odd side N and every
\* bigger_shape (M, M) with M >= N and M odd,
\* crop_to_shape(pad_to_shape(img, bigger_shape), img.shape) == img exactly.
\* (When M is even the round trip returns img moved by one pixel, its last
\* row and column filled with the pad value.)
C1_RoundTripOddPad ==
    (/\ edgeOp = "pad_then_crop"
     /\ IsSquareOdd(image.shape)
     /\ IsSquare(edgeArgs.bigger))
    => IF edgeArgs.bigger[1] % 2 = 1
       THEN edgeOut = image
       ELSE edgeOut = ShiftedByOne(image)

\* C1 witness: a 3 x 3 image padded to 5 x 5 and cropped back is itself.
C1_Witness ==
    /\ edgeOp = "pad_then_crop"
    /\ image.shape = <<3, 3>>
    /\ edgeArgs.bigger = <<5, 5>>
    /\ edgeOut = image

\* The window crop_to_shape_with_center is claimed to return, on one axis.
WindowLo(c, h) == c - (h \div 2)
WindowHi(c, h) == c + (h \div 2) + (h % 2)

WindowInside(img, shape, center) ==
    /\ WindowLo(center[2], shape[1]) >= 0
    /\ WindowHi(center[2], shape[1]) <= img.shape[1]
    /\ WindowLo(center[1], shape[2]) >= 0
    /\ WindowHi(center[1], shape[2]) <= img.shape[2]

Window(img, shape, center) ==
    SubArray(img, <<WindowLo(center[2], shape[1]), shape[1]>>,
                  <<WindowLo(center[1], shape[2]), shape[2]>>)

\* C2: for every image, shape (h, w) and center (xc, yc) whose window
\* rows [yc - h//2, yc + h//2 + h%2) and columns
\* [xc - w//2, xc + w//2 + w%2) lie inside the image,
\* crop_to_shape_with_center returns exactly that window, and with center
\* (Nx//2, Ny//2) it equals crop_to_shape(image, shape).
C2_CropWithCenterIsWindow ==
    (/\ edgeOp = "crop_to_shape_with_center"
     /\ IsImageRequest(image, edgeArgs.shape)
     /\ WindowInside(image, edgeArgs.shape, edgeArgs.center))
    => /\ edgeOut = Window(image, edgeArgs.shape, edgeArgs.center)
       /\ (edgeArgs.center = <<image.shape[2] \div 2, image.shape[1] \div 2>>
            => edgeOut = crop_to_shape(image, edgeArgs.shape))

\* On an axis of length n resized to length m: the first input index of the
\* centered crop window, the window's length, and the first output index
\* the window lands on.
ResizeWindowLo(n, m) == (n \div 2) - (Min(n, m) \div 2)
ResizeWindowLen(n, m) == Min(n, m)
ResizePadLo(n, m) == (m - Min(n, m)) \div 2

\* The centered crop window of img for a resize to `shape`, laid on a
\* fill-valued array of that shape.
ResizeExpected(img, shape) ==
    LET N1 == img.shape[1]
        N2 == img.shape[2]
        F(i, j) ==
            LET a == i - ResizePadLo(N1, shape[1])
                b == j - ResizePadLo(N2, shape[2])
            IN  IF /\ a >= 0 /\ a < ResizeWindowLen(N1, shape[1])
                   /\ b >= 0 /\ b < ResizeWindowLen(N2, shape[2])
                THEN img.data[<<ResizeWindowLo(N1, shape[1]) + a,
                                ResizeWindowLo(N2, shape[2]) + b>>]
                ELSE 0
    IN  Arr2(shape[1], shape[2], F)

\* The pixels of img inside the centered crop window of a resize to `shape`.
ResizeWindowPixels(img, shape) ==
    {img.data[p] : p \in {q \in DOMAIN img.data :
        /\ q[1] >= ResizeWindowLo(img.shape[1], shape[1])
        /\ q[1] < ResizeWindowLo(img.shape[1], shape[1])
                     + ResizeWindowLen(img.shape[1], shape[1])
        /\ q[2] >= ResizeWindowLo(img.shape[2], shape[2])
        /\ q[2] < ResizeWindowLo(img.shape[2], shape[2])
                     + ResizeWindowLen(img.shape[2], shape[2])}}

IsMixedRequest(img, shape) ==
    \/ img.shape[1] < shape[1] /\ img.shape[2] > shape[2]
    \/ img.shape[1] > shape[1] /\ img.shape[2] < shape[2]

\* C12: for a 2D image and a target shape of two lengths,
\* resize_with_crop_or_pad returns an array of exactly the requested
\* shape; its pixels other than the fill are exactly the pixels of the
\* centered crop window of the input, each at its place, so no pixel outside
\* that window appears in the result, on mixed requests as on the others.
C12_ResizeShapeAndWindow ==
    (/\ edgeOp = "resize_with_crop_or_pad"
     /\ IsImageRequest(image, edgeArgs.shape)) =>
        /\ edgeOut.shape = edgeArgs.shape
        /\ DOMAIN edgeOut.data =
               (0 .. edgeArgs.shape[1] - 1) \X (0 .. edgeArgs.shape[2] - 1)
        /\ {edgeOut.data[p] : p \in DOMAIN edgeOut.data} \ {0}
               = ResizeWindowPixels(image, edgeArgs.shape)
        /\ edgeOut = ResizeExpected(image, edgeArgs.shape)

\* C12 witness: a mixed request whose result holds fill pixels and window
\* pixels, and whose input has pixels outside the window.
C12_Witness ==
    /\ edgeOp = "resize_with_crop_or_pad"
    /\ IsImageRequest(image, edgeArgs.shape)
    /\ IsMixedRequest(image, edgeArgs.shape)
    /\ \E p \in DOMAIN edgeOut.data : edgeOut.data[p] = 0
    /\ \E p \in DOMAIN edgeOut.data : edgeOut.data[p] # 0
    /\ ResizeWindowPixels(image, edgeArgs.shape)
           # {image.data[p] : p \in DOMAIN image.data}

\* The index tuples of an array of the given 2D or 3D shape.
IndexSet(shape) ==
    IF Len(shape) = 2
    THEN (0 .. shape[1] - 1) \X (0 .. shape[2] - 1)
    ELSE (0 .. shape[1] - 1) \X (0 .. shape[2] - 1) \X (0 .. shape[3] - 1)

\* The index tuple p moved by `off`, axis by axis.
Offset(p, off) == [a \in 1 .. Len(p) |-> p[a] + off[a]]

\* The first input index of the centered crop on each axis: N//2 - h//2.
CropStart(arrShape, shape) ==
    [a \in 1 .. Len(shape) |-> (arrShape[a] \div 2) - (shape[a] \div 2)]

\* C13: for a 2D or 3D array and a requested shape with shape[i] <= N_i on
\* every axis, crop_to_shape returns an array of exactly the requested shape
\* whose element k along each axis is the input element at index
\* N_i//2 - h_i//2 + k.
C13_CropIsCenteredSlice ==
    edgeOp = "crop_to_shape" =>
        /\ edgeOut.shape = edgeArgs.shape
        /\ DOMAIN edgeOut.data = IndexSet(edgeArgs.shape)
        /\ \A p \in IndexSet(edgeArgs.shape) :
               edgeOut.data[p] =
                   image.data[Offset(p, CropStart(image.shape, edgeArgs.shape))]

\* C13 witness: a 3 x 3 x 2 volume cropped to 1 x 2 x 1, an odd and an even
\* length taken from odd and even axes.
C13_Witness ==
    /\ edgeOp = "crop_to_shape"
    /\ image.shape = <<3, 3, 2>>
    /\ edgeArgs.shape = <<1, 2, 1>>
    /\ edgeOut.data[<<0, 0, 0>>] = image.data[<<1, 0, 1>>]
    /\ edgeOut.data[<<0, 1, 0>>] = image.data[<<1, 1, 1>>]

\* The low-side and high-side padding the claim gives each axis.
PadLow(arrShape, shape) ==
    [a \in 1 .. Len(shape) |-> (shape[a] - arrShape[a]) \div 2]
PadHigh(arrShape, shape) ==
    [a \in 1 .. Len(shape) |->
        ((shape[a] - arrShape[a]) \div 2) + ((shape[a] - arrShape[a]) % 2)]

\* C14: for a 2D or 3D array and a target shape with target_i >= N_i on
\* every axis, pad_to_shape returns an array of exactly the target shape in
\* which the input occupies indices [pad//2, pad//2 + N_i) on each axis,
\* every other entry is fill, and the high-side padding pad//2 + pad%2 is
\* the low-side padding or one more.
C14_PadSplitLowHigh ==
    edgeOp = "pad_to_shape" =>
        LET lo == PadLow(image.shape, edgeArgs.shape)
            hi == PadHigh(image.shape, edgeArgs.shape)
            inside == {Offset(p, lo) : p \in DOMAIN image.data}
        IN  /\ edgeOut.shape = edgeArgs.shape
            /\ DOMAIN edgeOut.data = IndexSet(edgeArgs.shape)
            /\ \A p \in DOMAIN image.data :
                   edgeOut.data[Offset(p, lo)] = image.data[p]
            /\ \A q \in IndexSet(edgeArgs.shape) :
                   (\A p \in inside : p # q) => edgeOut.data[q] = 0
            /\ \A a \in 1 .. Len(edgeArgs.shape) :
                   /\ lo[a] + image.shape[a] + hi[a] = edgeOut.shape[a]
                   /\ hi[a] \in {lo[a], lo[a] + 1}

\* C14 witness: a 1 x 2 x 3 volume padded to 4 x 4 x 4: an odd pad of 3
\* split 1 + 2, an even pad of 2 split 1 + 1 and an odd pad of 1 split 0 + 1.
C14_Witness ==
    /\ edgeOp = "pad_to_shape"
    /\ image.shape = <<1, 2, 3>>
    /\ edgeArgs.shape = <<4, 4, 4>>
    /\ edgeOut.data[<<1, 1, 0>>] = image.data[<<0, 0, 0>>]
    /\ edgeOut.data[<<0, 1, 0>>] = 0
    /\ edgeOut.data[<<1, 1, 3>>] = 0

(***************************************************************************)
(* image/operators/_masks.py                                               *)
(*                                                                         *)
(* Mask weights are exact rationals, held in sixteenths: One is 1.0.       *)
(* Coordinates, radii, side lengths and rolloff widths are integers, and   *)
(* the inputs are drawn so that every angle handed to jnp.cos is a         *)
(* multiple of pi/2 or pi/3, where the cosine is rational.                 *)
(***************************************************************************)
One == 4 * 4
Half == One \div 2

\* largest side of a coordinate grid
MaxGrid == 3
\* largest grid spacing (pixel size of the coordinate grid)
MaxSpacing == 2
\* largest mask radius or side length
MaxSize == 4
\* rolloff widths for which pi * n / w is always a multiple of pi/2 or pi/3
RolloffWidths == {1, 2, 3}

\* Whether pi * n / d is a multiple of pi/2 or of pi/3.
ExactAngle(n, d) ==
    /\ (6 * n) % d = 0
    /\ (((6 * n) \div d) % 12) \notin {1, 5, 7, 11}

\* 2 * cos(pi * n / d) for such an angle.
Cos2(n, d) ==
    LET k == ((6 * n) \div d) % 12
    IN  CASE k = 0 -> 2
          [] k \in {2, 10} -> 1
          [] k \in {3, 9} -> 0
          [] k \in {4, 8} -> -1
          [] k = 6 -> -2

\* 1 + cos(pi * n / d), without the factor 0.5, in sixteenths.
HalfCosine_NoHalf(n, d) == One + Half * Cos2(n, d)

\* 0.5 * (1 + cos(pi * n / d)), in sixteenths.
HalfCosine(n, d) == Half + (Half \div 2) * Cos2(n, d)

\* The regular coordinate grid of shape (ny, nx) and spacing p, centred on
\* index N // 2: entry (i, j) is <<x, y>>.
RegularGrid(ny, nx, p) ==
    LET F(i, j) == <<p * (j - (nx \div 2)), p * (i - (ny \div 2))>>
    IN  Arr2(ny, nx, F)

\* A grid off the axes whose points all have an integer norm.
PythagoreanGrid ==
    LET F(i, j) == IF i = 0 THEN (IF j = 0 THEN <<3, 4>> ELSE <<-4, 3>>)
                   ELSE (IF j = 0 THEN <<0, 5>> ELSE <<0, 0>>)
    IN  Arr2(2, 2, F)

\* A grid with points on the outer edge of the soft band of a square mask
\* of side 2 and rolloff 1, and with mirror images across the y axis.
OuterEdgeGrid ==
    LET F(i, j) == IF i = 0 THEN (IF j = 0 THEN <<2, 1>> ELSE <<-2, 1>>)
                   ELSE (IF j = 0 THEN <<2, -1>> ELSE <<1, 2>>)
    IN  Arr2(2, 2, F)

\* A 3D grid (z_dim, y_dim, x_dim, 3) whose points all have an integer norm.
PythagoreanVolumeGrid ==
    LET F(k, i, j) == IF i = 0 THEN (IF j = 0 THEN <<0, 0, 0>> ELSE <<1, 2, 2>>)
                      ELSE (IF j = 0 THEN <<2, 3, 6>> ELSE <<0, 3, 4>>)
    IN  Arr3(1, 2, 2, F)

CoordinateGrids ==
    {RegularGrid(ny, nx, p) :
        ny \in 1 .. MaxGrid, nx \in 1 .. MaxGrid, p \in 1 .. MaxSpacing}
    \cup {PythagoreanGrid, OuterEdgeGrid}

\* The grids of SphericalCosineMask.
VolumeGrids == {PythagoreanVolumeGrid}

SquaredNorm(c) ==
    c[1] * c[1] + c[2] * c[2] + (IF Len(c) = 3 THEN c[3] * c[3] ELSE 0)
AbsSum(c) == Abs(c[1]) + Abs(c[2]) + (IF Len(c) = 3 THEN Abs(c[3]) ELSE 0)
HasIntegerNorm(c) == \E r \in 0 .. AbsSum(c) : r * r = SquaredNorm(c)

\* jnp.linalg.norm(coordinate, axis=-1) of a point with an integer norm.
Norm(c) == CHOOSE r \in 0 .. AbsSum(c) : r * r = SquaredNorm(c)

\* radial_coordinate_grid
RadialGrid(g) ==
    [shape |-> g.shape, data |-> [p \in DOMAIN g.data |-> Norm(g.data[p])]]

\* 0.5 * (1 + jnp.cos(jnp.pi * (radial_coordinate_grid - radius) / rolloff_width)):
\* the expression reads the whole radial grid, so its value is an array of
\* the grid's shape.
CircularTaperArray(radial, radius, w) ==
    [shape |-> radial.shape,
     data  |-> [q \in DOMAIN radial.data |->
                  HalfCosine(radial.data[q] - radius, w)]]

\* compute_mask_at_coordinate of _compute_circular_or_spherical_mask for one
\* radial coordinate r: jnp.where broadcasts its three arguments, so the
\* value is an array of the grid's shape.
CircularMaskAtCoordinate(r, radial, radius, w) ==
    LET taper == CircularTaperArray(radial, radius, w)
    IN  [shape |-> radial.shape,
         data  |-> [q \in DOMAIN radial.data |->
                      IF r <= radius THEN One
                      ELSE IF r > radius + w THEN 0
                      ELSE taper.data[q]]]

\* _compute_circular_or_spherical_mask: jax.vmap over every axis of
\* radial_coordinate_grid (two for an image grid, three for a volume grid)
\* stacks the per-point values: the result's shape is the grid's shape
\* followed by the shape of one value, and data[p] is the value stacked at
\* grid point p.
compute_circular_or_spherical_mask(g, radius, w) ==
    LET radial == RadialGrid(g)
    IN  [shape |-> g.shape \o radial.shape,
         data  |-> [p \in DOMAIN g.data |->
                      CircularMaskAtCoordinate(radial.data[p], radial, radius, w)]]

\* is_in_square_fn(x, y, s): |x| <= s/2 and |y| <= s/2.
is_in_square_fn(x, y, s) == 2 * Abs(x) <= s /\ 2 * Abs(y) <= s

\* is_in_edge_fn(x_or_y, s, w): |x| > s/2 and |x| < s/2 + w.
is_in_edge_fn(u, s, w) == 2 * Abs(u) > s /\ 2 * Abs(u) < s + 2 * w

\* compute_edge_fn(x_or_y, s, w) = 0.5 * (1 + cos(pi * (x_or_y - s/2) / w)).
compute_edge_fn(u, s, w) == HalfCosine(2 * u - s, 2 * w)

\* edge_x + edge_y in place of the product.
EdgeProduct_Sum(ex, ey) == ex + ey

\* edge_x * edge_y
EdgeProduct(ex, ey) == (ex * ey) \div One

\* compute_mask_at_coordinate of _compute_square_mask.
SquareMaskAtCoordinate(c, side, w) ==
    LET x == c[1]
        y == c[2]
        is_in_unmasked_square == is_in_square_fn(x, y, side)
        is_in_unmasked_plus_soft_edge_square == is_in_square_fn(x, y, side + 2 * w)
        is_in_edge_x == is_in_edge_fn(x, side, w)
        is_in_edge_y == is_in_edge_fn(y, side, w)
        edge_x == compute_edge_fn(x, side, w)
        edge_y == compute_edge_fn(y, side, w)
    IN  IF is_in_unmasked_square THEN One
        ELSE IF is_in_unmasked_plus_soft_edge_square
             THEN IF is_in_edge_x /\ is_in_edge_y THEN EdgeProduct(edge_x, edge_y)
                  ELSE IF is_in_edge_x THEN edge_x ELSE edge_y
        ELSE 0

\* _compute_square_mask: jax.vmap(jax.vmap(compute_mask_at_coordinate))(grid)
compute_square_mask(g, side, w) ==
    LET F(i, j) == SquareMaskAtCoordinate(g.data[<<i, j>>], side, w)
    IN  Arr2(g.shape[1], g.shape[2], F)

GridPoints(g) == DOMAIN g.data

\* The inputs for which every cosine the circular mask evaluates is rational.
CircularInputsExact(g, radius, w) ==
    \A p \in GridPoints(g) : HasIntegerNorm(g.data[p])

\* The inputs for which every cosine the square mask evaluates is rational.
SquareInputsExact(g, side, w) ==
    \A p \in GridPoints(g) :
        /\ ExactAngle(2 * g.data[p][1] - side, 2 * w)
        /\ ExactAngle(2 * g.data[p][2] - side, 2 * w)

InitMask ==
    /\ grid \in CoordinateGrids \cup VolumeGrids
    /\ maskKind = "none"
    /\ maskSize = 0
    /\ rolloff = 1
    /\ buffer = NoArray
    /\ IdleEdges
    /\ IdleNufft
    /\ IdleGauss
    /\ IdlePipeline

\* CircularCosineMask(grid, radius, rolloff_width)
BuildCircularMask ==
    \E radius \in 0 .. MaxSize, w \in RolloffWidths :
        /\ CircularInputsExact(grid, radius, w)
        /\ maskKind = "none"
        /\ maskKind' = "circular"
        /\ maskSize' = radius
        /\ rolloff' = w
        /\ buffer' = compute_circular_or_spherical_mask(grid, radius, w)
        /\ UNCHANGED <<grid, edgeVars, nufftVars, gaussVars, pipeVars>>

\* SquareCosineMask(grid, side_length, rolloff_width)
BuildSquareMask ==
    \E side \in 0 .. MaxSize, w \in RolloffWidths :
        /\ Len(grid.shape) = 2
        /\ SquareInputsExact(grid, side, w)
        /\ maskKind = "none"
        /\ maskKind' = "square"
        /\ maskSize' = side
        /\ rolloff' = w
        /\ buffer' = compute_square_mask(grid, side, w)
        /\ UNCHANGED <<grid, edgeVars, nufftVars, gaussVars, pipeVars>>

\* The weights a caller hands to CustomMask, in sixteenths: no range is
\* imposed on them.
CustomWeights == {-3 * One, 0, One, 7 * One}

\* The arrays a caller hands to CustomMask.
CustomMasks ==
    {[shape |-> <<1, 2>>, data |-> f] :
        f \in [{<<0, 0>>, <<0, 1>>} -> CustomWeights]}

\* CustomMask.__init__: self.buffer = mask
CustomMask(m) == m

\* CustomMask(mask)
BuildCustomMask ==
    \E m \in CustomMasks :
        /\ maskKind = "none"
        /\ maskKind' = "custom"
        /\ buffer' = CustomMask(m)
        /\ UNCHANGED <<grid, maskSize, rolloff,
                       edgeVars, nufftVars, gaussVars, pipeVars>>

NextMask ==
    \/ BuildCircularMask
    \/ BuildSquareMask
    \/ BuildCustomMask

SpecMask == InitMask /\ [][NextMask]_vars

(***************************************************************************)
(* Claims about image/operators/_masks.py, checked under SpecMask.         *)
(***************************************************************************)
\* The weights the buffer of a circular mask holds for grid point p.
CircularWeightsAt(p) == {buffer.data[p].data[q] : q \in DOMAIN buffer.data[p].data}

\* C3: the circular cosine mask weight of a grid point at radial distance
\* exactly radius is 1.0, and of a grid point at radial distance exactly
\* radius + rolloff is 0.0.
C3_TaperBoundaryValues ==
    maskKind = "circular" =>
        \A p \in GridPoints(grid) :
            /\ Norm(grid.data[p]) = maskSize => CircularWeightsAt(p) = {One}
            /\ Norm(grid.data[p]) = maskSize + rolloff => CircularWeightsAt(p) = {0}

InBand(u) == is_in_edge_fn(u, maskSize, rolloff)
InCore(u) == 2 * Abs(u) <= maskSize

\* C4: in the square mask a coordinate in the soft band of both axes gets
\* the product of the two per-axis tapers compute_edge_fn(x) and
\* compute_edge_fn(y); a coordinate in the soft band of one axis with the
\* other axis inside the core gets that one axis's taper.
C4_SquareSeparableTaper ==
    maskKind = "square" =>
        \A p \in GridPoints(grid) :
            LET x == grid.data[p][1]
                y == grid.data[p][2]
                tx == compute_edge_fn(x, maskSize, rolloff)
                ty == compute_edge_fn(y, maskSize, rolloff)
            IN  /\ (InBand(x) /\ InBand(y)) => One * buffer.data[p] = tx * ty
                /\ (InBand(x) /\ InCore(y)) => buffer.data[p] = tx
                /\ (InCore(x) /\ InBand(y)) => buffer.data[p] = ty

\* C4 witness: a grid point in both soft bands whose two tapers are 1/2, so
\* that the product 1/4 is neither their sum nor their average, beside a
\* grid point in one band only.
C4_Witness ==
    /\ maskKind = "square"
    /\ \E p \in GridPoints(grid) :
        /\ InBand(grid.data[p][1]) /\ InBand(grid.data[p][2])
        /\ compute_edge_fn(grid.data[p][1], maskSize, rolloff) = Half
        /\ compute_edge_fn(grid.data[p][2], maskSize, rolloff) = Half
        /\ buffer.data[p] = One \div 4
    /\ \E p \in GridPoints(grid) :
        /\ InBand(grid.data[p][1]) /\ InCore(grid.data[p][2])
        /\ buffer.data[p] = Half

\* Every weight the buffer holds, whatever its layout.
BufferWeights ==
    IF maskKind = "circular"
    THEN UNION {CircularWeightsAt(p) : p \in GridPoints(grid)}
    ELSE {buffer.data[p] : p \in GridPoints(grid)}

\* C15: every weight in the buffer of a CircularCosineMask,
\* SphericalCosineMask or SquareCosineMask lies in [0, 1].
C15_WeightsInUnitInterval ==
    maskKind \in {"circular", "square"} => \A wt \in BufferWeights : 0 <= wt /\ wt <= One

\* C15 witness: a spherical mask whose buffer holds the weights 0, 1 and a
\* weight strictly between them.
C15_Witness ==
    /\ maskKind = "circular"
    /\ Len(grid.shape) = 3
    /\ {0, One} \subseteq BufferWeights
    /\ \E wt \in BufferWeights : 0 < wt /\ wt < One

\* The weight of a point at radial distance r, from r alone.
CircularWeightOf(r) ==
    IF r <= maskSize THEN One
    ELSE IF r > maskSize + rolloff THEN 0
    ELSE HalfCosine(r - maskSize, rolloff)

\* C16: the buffer built by _compute_circular_or_spherical_mask has the
\* coordinate grid's shape without the component axis, one weight per grid
\* point, and the weight at a grid point is the one its own radial distance
\* gives.
C16_OneWeightPerGridPoint ==
    maskKind = "circular" =>
        /\ buffer.shape = grid.shape
        /\ \A p \in GridPoints(grid) :
               CircularWeightsAt(p) = {CircularWeightOf(Norm(grid.data[p]))}

\* The grid points that mirror p across the y axis or across the x axis.
Mirrors(p) ==
    {q \in GridPoints(grid) :
        \/ grid.data[q] = <<-grid.data[p][1], grid.data[p][2]>>
        \/ grid.data[q] = <<grid.data[p][1], -grid.data[p][2]>>}

\* C17: the square cosine mask gives a coordinate (x, y) the weight it
\* gives (-x, y) and (x, -y).
C17_SquareMaskSymmetric ==
    maskKind = "square" =>
        \A p \in GridPoints(grid) :
            \A q \in Mirrors(p) : buffer.data[p] = buffer.data[q]

\* Whether u lies on the outer edge of the soft band: |u| = side/2 + rolloff.
OnOuterEdge(u) == 2 * Abs(u) = maskSize + 2 * rolloff
InPaddedSquare(u) == 2 * Abs(u) <= maskSize + 2 * rolloff

\* C18: the square cosine mask is 0 at every coordinate with
\* |x| = side/2 + rolloff or |y| = side/2 + rolloff whose other coordinate
\* lies within the padded square.
C18_SquareOuterEdgeZero ==
    maskKind = "square" =>
        \A p \in GridPoints(grid) :
            LET x == grid.data[p][1]
                y == grid.data[p][2]
            IN  (\/ OnOuterEdge(x) /\ InPaddedSquare(y)
                 \/ OnOuterEdge(y) /\ InPaddedSquare(x))
                => buffer.data[p] = 0

(***************************************************************************)
(* simulator/_integrators/_nufft_project.py                                *)
(*                                                                         *)
(* jax_finufft.nufft1 is a library primitive.  Its output entry for the    *)
(* frequency (k1, k2) is the Fourier sum of the cloud at that frequency,   *)
(* held here as the term <<"F", k1, k2>>; the complex zero the code writes *)
(* is ZeroMode.                                                            *)
(***************************************************************************)
\* largest side of the target shape
MaxNufftDim == 4
\* largest number of points in the cloud
MaxPoints == 2

ZeroMode == <<"0", 0, 0>>

CloudWeights == {1, 2}
CloudCoordinates == {0, 1} \X {0, 1}
Clouds ==
    UNION {[weights : [1 .. n -> CloudWeights],
            coordinate_list : [1 .. n -> CloudCoordinates]] : n \in 1 .. MaxPoints}

\* nufft1(shape, weights, y, x, iflag=-1): index i of an axis of length M
\* holds the frequency i - M // 2.
nufft1(shape) ==
    LET F(i, j) == <<"F", i - (shape[1] \div 2), j - (shape[2] \div 2)>>
    IN  Arr2(shape[1], shape[2], F)

\* jnp.fft.ifftshift: a roll by -(n // 2) along each axis.
ifftshift(a) ==
    LET F(i, j) == a.data[<<(i + (a.shape[1] \div 2)) % a.shape[1],
                            (j + (a.shape[2] \div 2)) % a.shape[2]>>]
    IN  Arr2(a.shape[1], a.shape[2], F)

\* a[:, :n]
TakeColumns(a, n) == SubArray(a, <<0, a.shape[1]>>, PySlice(0, n, a.shape[2]))

\* a.at[:, -1].set(0)
ZeroLastColumn(a) ==
    LET F(i, j) == IF j = a.shape[2] - 1 THEN ZeroMode ELSE a.data[<<i, j>>]
    IN  Arr2(a.shape[1], a.shape[2], F)

\* a.at[r, :].set(0)
ZeroRow(a, r) ==
    LET F(i, j) == IF i = r THEN ZeroMode ELSE a.data[<<i, j>>]
    IN  Arr2(a.shape[1], a.shape[2], F)

\* The row zeroing left out.
ZeroNyquistRow_Skipped(a, M1) == a

\* if M1 % 2 == 0: projection.at[M1 // 2, :].set(0)
ZeroNyquistRow(a, M1) == IF M1 % 2 = 0 THEN ZeroRow(a, M1 \div 2) ELSE a

\* if M2 % 2 == 0: projection.at[:, -1].set(0)
ZeroNyquistColumn(a, M2) == IF M2 % 2 = 0 THEN ZeroLastColumn(a) ELSE a

\* project_with_nufft(weights, coordinate_list, shape)
project_with_nufft(shape) ==
    LET M1 == shape[1]
        M2 == shape[2]
        half == TakeColumns(ifftshift(nufft1(shape)), (M2 \div 2) + 1)
    IN  ZeroNyquistRow(ZeroNyquistColumn(half, M2), M1)

InitNufft ==
    /\ cloud \in Clouds
    /\ nufftShape \in (1 .. MaxNufftDim) \X (1 .. MaxNufftDim)
    /\ projection = NoArray
    /\ IdleEdges
    /\ IdleMask
    /\ IdleGauss
    /\ IdlePipeline

\* project_with_nufft(cloud.weights, cloud.coordinate_list, nufftShape)
CallProjectWithNufft ==
    /\ projection = NoArray
    /\ projection' = project_with_nufft(nufftShape)
    /\ UNCHANGED <<cloud, nufftShape, edgeVars, maskVars, gaussVars, pipeVars>>

NextNufft == CallProjectWithNufft

SpecNufft == InitNufft /\ [][NextNufft]_vars

(***************************************************************************)
(* Claims about project_with_nufft, checked under SpecNufft.               *)
(***************************************************************************)
\* C5: the half-spectrum project_with_nufft returns has M2//2 + 1 columns;
\* its last column is identically zero when M2 is even and its row M1//2
\* is identically zero when M1 is even.
C5_NyquistZeroed ==
    projection # NoArray =>
        LET M1 == nufftShape[1]
            M2 == nufftShape[2]
        IN  /\ projection.shape = <<M1, (M2 \div 2) + 1>>
            /\ M2 % 2 = 0 =>
                 \A i \in 0 .. M1 - 1 : projection.data[<<i, M2 \div 2>>] = ZeroMode
            /\ M1 % 2 = 0 =>
                 \A j \in 0 .. M2 \div 2 : projection.data[<<M1 \div 2, j>>] = ZeroMode

\* C5 witness: a 4 x 4 target, whose half-spectrum keeps the modes off the
\* Nyquist row and column.
C5_Witness ==
    /\ projection # NoArray
    /\ nufftShape = <<4, 4>>
    /\ projection.data[<<2, 1>>] = ZeroMode
    /\ projection.data[<<1, 2>>] = ZeroMode
    /\ projection.data[<<1, 1>>] = <<"F", 1, 1>>
    /\ projection.data[<<3, 1>>] = <<"F", -1, 1>>

(***************************************************************************)
(* inference/distributions/_gaussian_distributions.py                      *)
(*                                                                         *)
(* Complex numbers are pairs <<re, im>> of integers.  The operator         *)
(* variance(freqs) takes the values 1 and 2.  A log-likelihood is the real *)
(* number                                                                  *)
(*    quad / (2 * VarLcm * npix^2)                                         *)
(*      + SUM over v of logs[v] * log(2 * pi * npix * v) / (2 * npix)      *)
(* held exactly as the record [npix, quad, logs].                          *)
(***************************************************************************)
\* largest side of config.shape
MaxGaussDim == 3
\* largest difference between padded_shape and shape on an axis
MaxPadExtra == 1
\* number of array patterns the renderings and observations are drawn from
MaxPattern == 2

VarValues == {1, 2}
VarLcm == 1 * 2

\* The half-spectrum shape of the frequency grid of a real image of `shape`.
HalfSpectrumShape(shape) == <<shape[1], (shape[2] \div 2) + 1>>

\* A family of complex half-spectra.
PatternArray(shape, k) ==
    LET F(i, j) == <<(i + 2 * j + k) % 3, (i * j + k) % 2>>
    IN  Arr2(shape[1], shape[2], F)

\* self.variance(freqs) at mode (i, j)
VarianceAt(op, i, j) ==
    CASE op = "Constant1" -> 1
      [] op = "Constant2" -> 2
      [] op = "Alternating" -> 1 + ((i + j) % 2)

VarianceArgs == {None, "Constant2", "Alternating"}
ContrastArgs == {Nothing, Some(0), Some(1), Some(2)}

\* self.variance = variance or Constant(1.0)
InitVariance(arg) == IF arg = None THEN "Constant1" ELSE arg

\* self.contrast_scale = contrast_scale or jnp.asarray(1.0): None and every
\* falsy value give 1.0.
InitContrastScale(arg) ==
    IF arg = Nothing \/ TheValue(arg) = 0 THEN 1 ELSE TheValue(arg)

\* np.prod(self.pipeline.integrator.config.padded_shape)
NPix(config) == config.padded_shape[1] * config.padded_shape[2]

\* IndependentFourierGaussian.render(get_real=False)
Render(scale, r) ==
    LET F(i, j) == <<scale * r.data[<<i, j>>][1], scale * r.data[<<i, j>>][2]>>
    IN  Arr2(r.shape[1], r.shape[2], F)

\* simulated + observed in place of the difference.
Residual_Sum(a, b) == <<a[1] + b[1], a[2] + b[2]>>

\* residuals = simulated - observed, at one mode
Residual(a, b) == <<a[1] - b[1], a[2] - b[2]>>

\* jnp.abs(z) ** 2
AbsSquared(z) == z[1] * z[1] + z[2] * z[2]

LLZero(npix) == [npix |-> npix, quad |-> 0, logs |-> [v \in VarValues |-> 0]]
LLAdd(a, b) ==
    [npix |-> a.npix, quad |-> a.quad + b.quad,
     logs |-> [v \in VarValues |-> a.logs[v] + b.logs[v]]]
LLScale(k, a) ==
    [npix |-> a.npix, quad |-> k * a.quad,
     logs |-> [v \in VarValues |-> k * a.logs[v]]]

\* log_likelihood_per_mode[i, j] =
\*   (|residual|^2 / (2 * variance) - log(2 * pi * variance) / 2) / N_pix
\* with variance = N_pix * self.variance(freqs)[i, j].
LogLikelihoodPerMode(npix, v, sim, obs) ==
    [npix |-> npix,
     quad |-> AbsSquared(Residual(sim, obs)) * (VarLcm \div v),
     logs |-> [u \in VarValues |-> IF u = v THEN -1 ELSE 0]]

\* jnp.sum over the modes of a set of positions.
RECURSIVE SumModes(_, _, _)
SumModes(T, S, npix) ==
    IF S = {} THEN LLZero(npix)
    ELSE LET p == CHOOSE q \in S : TRUE
         IN  LLAdd(T[p], SumModes(T, S \ {p}, npix))

\* The positions of log_likelihood_per_mode[0:, 0]: the DC mode included.
FirstColumnModes_WithDC(shape) == (0 .. shape[1] - 1) \X {0}

\* The positions of log_likelihood_per_mode[1:, 0].
FirstColumnModes(shape) == (1 .. shape[1] - 1) \X {0}

\* The positions of log_likelihood_per_mode[:, 1:].
OtherColumnModes(shape) == (0 .. shape[1] - 1) \X (1 .. shape[2] - 1)

\* The weighted sum returned without the final negation.
Negated_Skipped(a) == a

\* -1.0 * (...)
Negated(a) == LLScale(-1, a)

\* IndependentFourierGaussian.log_likelihood(observed)
log_likelihood(config, op, scale, r, obs) ==
    LET npix == NPix(config)
        simulated == Render(scale, r)
        T == [p \in DOMAIN obs.data |->
                LogLikelihoodPerMode(npix, VarianceAt(op, p[1], p[2]),
                                     simulated.data[p], obs.data[p])]
    IN  Negated(LLAdd(SumModes(T, FirstColumnModes(obs.shape), npix),
                      LLScale(2, SumModes(T, OtherColumnModes(obs.shape), npix))))

\* largest PRNG key
MaxKey == 2

\* jr.normal(key, shape): the draw at mode (i, j), a whole number of
\* standard deviations; keys differ in whether the draw at [0, 0] is 0.
Normal(key, i, j) == ((key * (i + 1) + 2 * j) % 5) - 2
jr_normal(key, shape) ==
    LET F(i, j) == Normal(key, i, j)
    IN  Arr2(shape[1], shape[2], F)

\* The draws left as they are.
AtSetZero_Skipped(a) == a

\* a.at[0, 0].set(0.0)
AtSetZero(a) == [a EXCEPT !.data[<<0, 0>>] = 0]

\* std * a with std = jnp.sqrt(N_pix * self.variance(freqs)): the entry
\* <<s, z>> stands for the real number sqrt(s) * z.
ScaleByStd(config, op, a) ==
    LET F(i, j) == <<NPix(config) * VarianceAt(op, i, j), a.data[<<i, j>>]>>
    IN  Arr2(a.shape[1], a.shape[2], F)

\* std * jr.normal(key, shape=freqs.shape[0:-1]).at[0, 0].set(0.0) on the
\* padded frequency grid: the attribute chain binds before the product.
NoiseForChain(config, op, key) ==
    ScaleByStd(config, op,
               AtSetZero(jr_normal(key, HalfSpectrumShape(config.padded_shape))))

\* pipeline.crop_and_apply_operators(image, get_real=get_real): the
\* pipeline's crop/filter/mask chain, kept as an operation on its input.
crop_and_apply_operators(a, get_real) ==
    [op |-> "crop_and_apply_operators", input |-> a, get_real |-> get_real]

\* IndependentFourierGaussian.sample(key, get_real=get_real): image + noise,
\* held as its two terms.
IndependentFourierGaussian_sample(config, op, scale, r, key, get_real) ==
    [signal |-> Render(scale, r),
     noise |-> crop_and_apply_operators(NoiseForChain(config, op, key), get_real),
     get_real |-> get_real]

GaussConfigs ==
    {[shape |-> <<n1, n2>>, padded_shape |-> <<n1 + e, n2 + e>>] :
        n1 \in 1 .. MaxGaussDim, n2 \in 1 .. MaxGaussDim, e \in 0 .. MaxPadExtra}

\* IndependentFourierGaussian(pipeline, variance, contrast_scale)
InitGauss ==
    /\ gConfig \in GaussConfigs
    /\ \E k \in 1 .. MaxPattern :
           rendering = PatternArray(HalfSpectrumShape(gConfig.shape), k)
    /\ \E arg \in VarianceArgs : variance = InitVariance(arg)
    /\ contrastArg \in ContrastArgs
    /\ contrast_scale = InitContrastScale(contrastArg)
    /\ observed = NoArray
    /\ gaussOp = "none"
    /\ gaussOut = NoLogLikelihood
    /\ sampleArgs = NoSampleArgs
    /\ gaussNoise = NoArray
    /\ gaussImage = NoGaussImage
    /\ IdleEdges
    /\ IdleMask
    /\ IdleNufft
    /\ IdlePipeline

\* log_likelihood(observed) for an observed half-spectrum of the grid's shape
CallLogLikelihood ==
    \E k \in 0 .. MaxPattern :
        LET obs == PatternArray(HalfSpectrumShape(gConfig.shape), k)
        IN  /\ gaussOp = "none"
            /\ gaussOp' = "log_likelihood"
            /\ observed' = obs
            /\ gaussOut' = log_likelihood(gConfig, variance, contrast_scale,
                                          rendering, obs)
            /\ UNCHANGED <<gConfig, rendering, variance, contrast_scale,
                           contrastArg, sampleArgs, gaussNoise, gaussImage,
                           edgeVars, maskVars, nufftVars, pipeVars>>

\* log_likelihood(render(get_real=False))
CallLogLikelihoodOfRender ==
    LET obs == Render(contrast_scale, rendering)
    IN  /\ gaussOp = "none"
        /\ gaussOp' = "log_likelihood_of_render"
        /\ observed' = obs
        /\ gaussOut' = log_likelihood(gConfig, variance, contrast_scale,
                                      rendering, obs)
        /\ UNCHANGED <<gConfig, rendering, variance, contrast_scale,
                       contrastArg, sampleArgs, gaussNoise, gaussImage,
                       edgeVars, maskVars, nufftVars, pipeVars>>

\* sample(key, get_real=get_real)
CallGaussSample ==
    \E key \in 1 .. MaxKey, get_real \in BOOLEAN :
        /\ gaussOp = "none"
        /\ gaussOp' = "sample"
        /\ sampleArgs' = [key |-> key, get_real |-> get_real]
        /\ gaussNoise' = NoiseForChain(gConfig, variance, key)
        /\ gaussImage' = IndependentFourierGaussian_sample(
                             gConfig, variance, contrast_scale, rendering,
                             key, get_real)
        /\ UNCHANGED <<gConfig, rendering, variance, contrast_scale,
                       contrastArg, observed, gaussOut,
                       edgeVars, maskVars, nufftVars, pipeVars>>

\* render(get_real=get_real)
CallGaussRender ==
    \E get_real \in BOOLEAN :
        /\ gaussOp = "none"
        /\ gaussOp' = "render"
        /\ sampleArgs' = [key |-> 0, get_real |-> get_real]
        /\ gaussImage' = [signal |-> Render(contrast_scale, rendering),
                          noise |-> NoArray,
                          get_real |-> get_real]
        /\ UNCHANGED <<gConfig, rendering, variance, contrast_scale,
                       contrastArg, observed, gaussOut, gaussNoise,
                       edgeVars, maskVars, nufftVars, pipeVars>>

NextGauss ==
    \/ CallLogLikelihood
    \/ CallLogLikelihoodOfRender
    \/ CallGaussSample
    \/ CallGaussRender

SpecGauss == InitGauss /\ [][NextGauss]_vars

(***************************************************************************)
(* Claims about IndependentFourierGaussian, checked under SpecGauss.       *)
(***************************************************************************)
\* The weight the claim gives mode (i, j) of the half-spectrum.
HermitianWeight(i, j) == IF j >= 1 THEN 2 ELSE IF i >= 1 THEN 1 ELSE 0

\* The per-mode term of mode p for the state's distribution and `obs`.
PerModeTerm(obs, p) ==
    LogLikelihoodPerMode(NPix(gConfig), VarianceAt(variance, p[1], p[2]),
                         Render(contrast_scale, rendering).data[p], obs.data[p])

\* The sum over all modes of weight * term, mode by mode.
RECURSIVE WeightedSum(_, _)
WeightedSum(obs, S) ==
    IF S = {} THEN LLZero(NPix(gConfig))
    ELSE LET p == CHOOSE q \in S : TRUE
         IN  LLAdd(LLScale(HermitianWeight(p[1], p[2]), PerModeTerm(obs, p)),
                   WeightedSum(obs, S \ {p}))

\* `obs` with its DC entry replaced by z.
WithDC(obs, z) == [obs EXCEPT !.data[<<0, 0>>] = z]

ComplexValues == (0 .. 2) \X (0 .. 2)

\* C6: log_likelihood is minus the sum of the per-mode terms with weight 0
\* for mode [0,0], 1 for modes [i,0] with i >= 1 and 2 for modes [i,j]
\* with j >= 1, and its value does not change with observed[0,0].
C6_HermitianWeights ==
    gaussOp = "log_likelihood" =>
        /\ gaussOut = LLScale(-1, WeightedSum(observed, DOMAIN observed.data))
        /\ \A z \in ComplexValues :
               log_likelihood(gConfig, variance, contrast_scale, rendering,
                              WithDC(observed, z)) = gaussOut

\* C6 witness: a half-spectrum with modes of each weight and a non-zero
\* residual at the DC mode, at a first-column mode and at another mode.
C6_Witness ==
    /\ gaussOp = "log_likelihood"
    /\ observed.shape[1] >= 2 /\ observed.shape[2] >= 2
    /\ \A p \in {<<0, 0>>, <<1, 0>>, <<1, 1>>} :
           Render(contrast_scale, rendering).data[p] # observed.data[p]
    /\ gaussOut.quad < 0

\* The value of the entropy terms alone: each mode of variance v adds its
\* Hermitian weight to the coefficient of log(2 * pi * N_pix * v) / (2 * N_pix).
EntropyOnly(config, op) ==
    LET shape == HalfSpectrumShape(config.shape)
        modes == (0 .. shape[1] - 1) \X (0 .. shape[2] - 1)
    IN  [npix |-> NPix(config),
         quad |-> 0,
         logs |-> [v \in VarValues |->
                     2 * Cardinality({p \in modes : p[2] >= 1 /\ VarianceAt(op, p[1], p[2]) = v})
                     + Cardinality({p \in modes : p[2] = 0 /\ p[1] >= 1
                                                  /\ VarianceAt(op, p[1], p[2]) = v})]]

\* C7: when observed is the distribution's own render(get_real=False) the
\* log-likelihood has no residual term: it is minus the Hermitian-weighted
\* sum of the entropy terms -log(2*pi*N_pix*variance)/2 / N_pix, which the
\* variance operator and the shapes alone determine.
C7_SelfLikelihoodIsEntropy ==
    gaussOp = "log_likelihood_of_render" =>
        /\ gaussOut.quad = 0
        /\ gaussOut = EntropyOnly(gConfig, variance)

\* C7 witness: a non-zero rendering scaled by a contrast other than 1 on a
\* grid with modes of weight 1 and 2.
C7_Witness ==
    /\ gaussOp = "log_likelihood_of_render"
    /\ contrast_scale = 2
    /\ variance = "Alternating"
    /\ observed.shape = <<3, 2>>
    /\ observed.data[<<1, 1>>] # <<0, 0>>
    /\ gaussOut.logs[1] > 0 /\ gaussOut.logs[2] > 0

\* The real number sqrt(s) * z an entry <<s, z>> of the noise stands for is 0.
IsZeroEntry(e) == e[1] = 0 \/ e[2] = 0

\* C11: the noise sample hands to the pipeline's crop/filter/mask chain has
\* DC mode [0,0] equal to 0, and the sample returned is the rendered signal
\* plus the noise that chain returned.
C11_SampleNoiseDCZero ==
    gaussOp = "sample" =>
        /\ IsZeroEntry(gaussNoise.data[<<0, 0>>])
        /\ gaussImage.signal = Render(contrast_scale, rendering)
        /\ gaussImage.noise =
               crop_and_apply_operators(gaussNoise, sampleArgs.get_real)
        /\ gaussImage.noise.input.data[<<0, 0>>] = gaussNoise.data[<<0, 0>>]

\* C11 witness: a key whose draw at [0,0] is not 0, on a grid with another
\* mode whose noise is not 0, under a variance that changes with frequency.
C11_Witness ==
    /\ gaussOp = "sample"
    /\ Normal(sampleArgs.key, 0, 0) # 0
    /\ variance = "Alternating"
    /\ \E p \in DOMAIN gaussNoise.data : ~IsZeroEntry(gaussNoise.data[p])

\* The total Hermitian weight log_likelihood used: each mode adds its
\* weight to the coefficient of one of the entropy terms of the value
\* returned.
TotalWeightUsed == gaussOut.logs[1] + gaussOut.logs[2]

\* C19: for a padded shape (M1, M2) whose half-spectrum (M1, M2//2 + 1) is
\* the grid log_likelihood sums over, the total Hermitian weight
\* (M1 - 1) + 2 * M1 * (M2//2) is N_pix - 1 = M1*M2 - 1, for even as well
\* as odd M2.
C19_TotalWeightIsNPixMinusOne ==
    (/\ gaussOp \in {"log_likelihood", "log_likelihood_of_render"}
     /\ gConfig.shape = gConfig.padded_shape)
    => LET M1 == gConfig.padded_shape[1]
           M2 == gConfig.padded_shape[2]
       IN  /\ TotalWeightUsed = (M1 - 1) + 2 * M1 * (M2 \div 2)
           /\ TotalWeightUsed = NPix(gConfig) - 1

\* The contrast the claim has render use: the caller's when one was
\* supplied, 1.0 for None.
SuppliedContrast == IF contrastArg = Nothing THEN 1 ELSE TheValue(contrastArg)

\* C20: for every value c passed as contrast_scale, 0 included, render
\* returns c times the pipeline's normalized rendering; 1.0 is used only
\* when contrast_scale is None.
C20_RenderUsesSuppliedContrast ==
    gaussOp = "render" =>
        /\ gaussImage.signal = Render(SuppliedContrast, rendering)
        /\ (contrast_scale = 1 /\ contrastArg # Some(1)) => contrastArg = Nothing

\* |simulated - obs|^2 at mode p for the state's distribution.
ResidualSquared(obs, p) ==
    AbsSquared(Residual(Render(contrast_scale, rendering).data[p], obs.data[p]))

\* `obs` with its entry at mode p replaced by z.
WithMode(obs, p, z) == [obs EXCEPT !.data[p] = z]

\* Whether log-likelihood a is strictly below b, for two values of the same
\* distribution: their entropy terms agree, so the order is that of the
\* residual terms.
StrictlyBelow(a, b) == a.logs = b.logs /\ a.npix = b.npix /\ a.quad < b.quad

\* The value log_likelihood returns for `obs` in the state's distribution.
ValueFor(obs) ==
    log_likelihood(gConfig, variance, contrast_scale, rendering, obs)

\* C21: for the distribution's fixed positive variance, raising the
\* residual magnitude |simulated - observed| at a mode other than [0,0]
\* strictly lowers the value log_likelihood returns, leaving every residual
\* magnitude as it is leaves the value as it is, and no observation scores
\* above observed = render(get_real=False).
C21_MaximalAtRender ==
    gaussOp = "log_likelihood" =>
        /\ \A p \in DOMAIN observed.data \ {<<0, 0>>} :
               \A z \in ComplexValues :
                   LET other == WithMode(observed, p, z)
                   IN  /\ ResidualSquared(other, p) > ResidualSquared(observed, p)
                          => StrictlyBelow(ValueFor(other), gaussOut)
                       /\ ResidualSquared(other, p) = ResidualSquared(observed, p)
                          => ValueFor(other) = gaussOut
        /\ LET best == ValueFor(Render(contrast_scale, rendering))
           IN  \/ gaussOut = best
               \/ StrictlyBelow(gaussOut, best)

\* C21 witness: an observation that differs from the rendering at a mode of
\* weight 1 and at a mode of weight 2, under a variance that changes with
\* frequency, with a different observation at mode [1,1] of equal residual
\* magnitude and one of larger residual magnitude.
C21_Witness ==
    /\ gaussOp = "log_likelihood"
    /\ variance = "Alternating"
    /\ observed.shape[1] >= 2 /\ observed.shape[2] >= 2
    /\ ResidualSquared(observed, <<1, 0>>) > 0
    /\ ResidualSquared(observed, <<1, 1>>) > 0
    /\ StrictlyBelow(gaussOut, ValueFor(Render(contrast_scale, rendering)))
    /\ \E z \in ComplexValues :
           /\ z # observed.data[<<1, 1>>]
           /\ ResidualSquared(WithMode(observed, <<1, 1>>, z), <<1, 1>>)
                  = ResidualSquared(observed, <<1, 1>>)
    /\ \E z \in ComplexValues :
           ResidualSquared(WithMode(observed, <<1, 1>>, z), <<1, 1>>)
               > ResidualSquared(observed, <<1, 1>>)

(***************************************************************************)
(* simulator/image.py                                                      *)
(*                                                                         *)
(* The specimen, the solvent, the instrument, the filters, the masks and   *)
(* scattering.crop are collaborators of ImagePipeline: an image is held as *)
(* the term of the operations applied to make it.  A computation in        *)
(* progress is [img, space, trace]: the image, whether it is in "real" or  *)
(* "fourier" space, and the operations applied so far, in order, each as   *)
(* <<operation, filter or mask name, space of the image it was given>>.    *)
(***************************************************************************)
\* largest number of filters, and of masks, of a pipeline
MaxOperators == 2

FilterNames == {"F1", "F2"}
MaskNames == {"M1", "M2"}
PixelSizes == {2, 3}

SeqsUpTo(S, n) == UNION {[1 .. k -> S] : k \in 0 .. n}

Pipelines ==
    [filters : SeqsUpTo(FilterNames, MaxOperators),
     masks : SeqsUpTo(MaskNames, MaxOperators),
     observed : {Nothing, Some("observed")},
     detector_pixel_size : {Nothing} \cup {Some(ps) : ps \in PixelSizes},
     resolution : PixelSizes]

\* A collaborator that makes an image from nothing but parameters.
Source(trace, op, at, space) ==
    [img |-> Img(op, "", at, <<>>),
     space |-> space,
     trace |-> Append(trace, <<op, "", space>>)]

\* An operation applied to the image of computation e.
Apply(e, op, name, at, space) ==
    [img |-> Img(op, name, at, <<e.img>>),
     space |-> space,
     trace |-> Append(e.trace, <<op, name, e.space>>)]

\* a + b, b computed after a.
Add(a, b) ==
    [img |-> Img("add", "", 0, <<a.img, b.img>>),
     space |-> a.space,
     trace |-> Append(b.trace, <<"add", "", a.space>>)]

fftn(e) == Apply(e, "fftn", "", 0, "fourier")
irfftn(e) == Apply(e, "irfftn", "", 0, "real")

\* ImagePipeline.filter: for filter in self.filters: image = filter(image)
RECURSIVE filter(_, _)
filter(e, filters) ==
    IF filters = <<>> THEN e
    ELSE filter(Apply(e, "filter", Head(filters), 0, e.space), Tail(filters))

\* ImagePipeline.mask: for mask in self.masks: image = mask(image)
RECURSIVE mask(_, _)
mask(e, masks) ==
    IF masks = <<>> THEN e
    ELSE mask(Apply(e, "mask", Head(masks), 0, e.space), Tail(masks))

\* self.scattering.crop(image)
crop(e) == Apply(e, "crop", "", 0, e.space)

\* The filter step of view.
ViewFilterStep(p, e, real) ==
    IF real
    THEN IF Len(p.filters) > 0 THEN irfftn(filter(fftn(e), p.filters)) ELSE e
    ELSE irfftn(filter(e, p.filters))

\* The masks applied before the crop.
ViewCropAndMask_MaskFirst(p, e) == crop(mask(e, p.masks))

\* image = self.mask(self.scattering.crop(image))
ViewCropAndMask(p, e) == mask(crop(e), p.masks)

\* ImagePipeline.view(image, real)
view(p, e, real) == ViewCropAndMask(p, ViewFilterStep(p, e, real))

\* ImagePipeline.render(view), continuing the trace of earlier operations.
render(p, trace, viewFlag) ==
    LET optics_image == Source(trace, "specimen.scatter", 0, "fourier")
        pixelized_image == Apply(irfftn(optics_image), "detector.pixelize", "",
                                 p.resolution, "real")
    IN  IF viewFlag THEN view(p, pixelized_image, TRUE) ELSE pixelized_image

\* sample renders with the view step on.
SampleRenderView_On == TRUE

\* The view argument of the self.render call of sample.
SampleRenderView == FALSE

\* The pixel size sample works at.
SamplePixelSize(p) ==
    IF p.detector_pixel_size # Nothing
    THEN TheValue(p.detector_pixel_size)
    ELSE p.resolution

\* The detector readout of sample, before the view step.
DetectorReadout(p) ==
    LET pixel_size == SamplePixelSize(p)
        pixelized_image == render(p, <<>>, SampleRenderView)
        ice_image == irfftn(Source(pixelized_image.trace, "solvent.scatter",
                                   pixel_size, "fourier"))
        img == Add(pixelized_image, ice_image)
        noise == Apply(img, "detector.sample", "", pixel_size, "real")
    IN  Add(img, noise)

\* ImagePipeline.sample(view)
sample(p, viewFlag) ==
    IF viewFlag THEN view(p, DetectorReadout(p), TRUE) ELSE DetectorReadout(p)

Returned(e) == [kind |-> "return", exc |-> "", img |-> e.img, trace |-> e.trace]
Raised(exc) == [kind |-> "raise", exc |-> exc, img |-> NoImage, trace |-> <<>>]

\* ImagePipeline.log_probability()
log_probability(p) == Raised("NotImplementedError")

\* ImagePipeline.__call__(view)
call(p, viewFlag) ==
    IF p.observed = Nothing
    THEN Returned(sample(p, viewFlag))
    ELSE log_probability(p)

\* The image handed to view by a caller, in real or Fourier space.
InputImage(real) ==
    [img |-> Img("input", "", 0, <<>>),
     space |-> IF real THEN "real" ELSE "fourier",
     trace |-> <<>>]

InitPipeline ==
    /\ pipeline \in Pipelines
    /\ pipeOp = [entry |-> "none", view |-> FALSE, real |-> FALSE]
    /\ pipeOut = NoOutcome
    /\ IdleEdges
    /\ IdleMask
    /\ IdleNufft
    /\ IdleGauss

\* pipeline(view)
CallPipeline ==
    \E v \in BOOLEAN :
        /\ pipeOp.entry = "none"
        /\ pipeOp' = [entry |-> "__call__", view |-> v, real |-> FALSE]
        /\ pipeOut' = call(pipeline, v)
        /\ UNCHANGED <<pipeline, edgeVars, maskVars, nufftVars, gaussVars>>

\* pipeline.render(view)
CallRender ==
    \E v \in BOOLEAN :
        /\ pipeOp.entry = "none"
        /\ pipeOp' = [entry |-> "render", view |-> v, real |-> FALSE]
        /\ pipeOut' = Returned(render(pipeline, <<>>, v))
        /\ UNCHANGED <<pipeline, edgeVars, maskVars, nufftVars, gaussVars>>

\* pipeline.sample(view)
CallSample ==
    \E v \in BOOLEAN :
        /\ pipeOp.entry = "none"
        /\ pipeOp' = [entry |-> "sample", view |-> v, real |-> FALSE]
        /\ pipeOut' = Returned(sample(pipeline, v))
        /\ UNCHANGED <<pipeline, edgeVars, maskVars, nufftVars, gaussVars>>

\* pipeline.view(image, real)
CallView ==
    \E r \in BOOLEAN :
        /\ pipeOp.entry = "none"
        /\ pipeOp' = [entry |-> "view", view |-> TRUE, real |-> r]
        /\ pipeOut' = Returned(view(pipeline, InputImage(r), r))
        /\ UNCHANGED <<pipeline, edgeVars, maskVars, nufftVars, gaussVars>>

NextPipeline ==
    \/ CallPipeline
    \/ CallRender
    \/ CallSample
    \/ CallView

SpecPipeline == InitPipeline /\ [][NextPipeline]_vars

(***************************************************************************)
(* Claims about ImagePipeline, checked under SpecPipeline.                 *)
(***************************************************************************)
\* C8: calling an ImagePipeline returns sample(view) when observed is None
\* and otherwise computes and returns the log likelihood of the observed
\* data.
C8_CallDispatch ==
    pipeOp.entry = "__call__" =>
        IF pipeline.observed = Nothing
        THEN pipeOut = Returned(sample(pipeline, pipeOp.view))
        ELSE pipeOut.kind = "return"

\* The positions of the operations of one kind in a trace.
Positions(t, kind) == {i \in 1 .. Len(t) : t[i][1] = kind}

IsFilterEvent(ev) == ev[1] = "filter"
IsMaskEvent(ev) == ev[1] = "mask"

\* The names of the filters (masks) a trace applied, in order.
NamesOf(events) == [i \in 1 .. Len(events) |-> events[i][2]]
FiltersApplied(t) == NamesOf(SelectSeq(t, IsFilterEvent))
MasksApplied(t) == NamesOf(SelectSeq(t, IsMaskEvent))

\* Whether the call that ended ran the view step.
ViewRan ==
    /\ pipeOut.kind = "return"
    /\ \/ pipeOp.entry = "view"
       \/ pipeOp.entry \in {"render", "sample", "__call__"} /\ pipeOp.view

\* C9: view applies every filter, in list order and in Fourier space, before
\* scattering.crop, and every mask, in list order and in real space, after
\* the crop: no mask precedes the crop and no filter follows it.
C9_FiltersCropMasks ==
    pipeOut.kind = "return" =>
        LET t == pipeOut.trace
            crops == Positions(t, "crop")
            fs == Positions(t, "filter")
            ms == Positions(t, "mask")
        IN  /\ Cardinality(crops) = IF ViewRan THEN 1 ELSE 0
            /\ FiltersApplied(t) = IF ViewRan THEN pipeline.filters ELSE <<>>
            /\ MasksApplied(t) = IF ViewRan THEN pipeline.masks ELSE <<>>
            /\ \A c \in crops :
                   /\ \A i \in fs : i < c
                   /\ \A i \in ms : c < i
                   /\ t[c][3] = "real"
            /\ \A i \in fs : t[i][3] = "fourier"
            /\ \A i \in ms : t[i][3] = "real"

\* C9 witness: a view of a real-space image through two filters and two
\* masks.
C9_Witness ==
    /\ pipeOp.entry = "view" /\ pipeOp.real
    /\ pipeline.filters = <<"F2", "F1">>
    /\ pipeline.masks = <<"M1", "M2">>
    /\ pipeOut.trace = << <<"fftn", "", "real">>, <<"filter", "F2", "fourier">>,
                          <<"filter", "F1", "fourier">>, <<"irfftn", "", "fourier">>,
                          <<"crop", "", "real">>, <<"mask", "M1", "real">>,
                          <<"mask", "M2", "real">> >>

ViewOperations == {"fftn", "filter", "irfftn", "crop", "mask"}

\* The image the view step was given: a viewed image without the view
\* operations applied last.
RECURSIVE BeforeView(_)
BeforeView(img) ==
    IF img.op \in ViewOperations THEN BeforeView(img.args[1]) ELSE img

\* Whether an image was made without cropping, masking or filtering.
RECURSIVE Unviewed(_)
Unviewed(img) ==
    /\ img.op \notin {"crop", "mask", "filter"}
    /\ \A i \in 1 .. Len(img.args) : Unviewed(img.args[i])

\* C10: sample builds the readout (un-viewed rendering + ice) + detector
\* noise, the ice and the noise evaluated at the detector's pixel size or,
\* when the detector defines none, at the specimen's resolution; the view
\* step is applied once, to the readout, after the noise is added, and only
\* when view is True.
C10_SampleReadout ==
    pipeOp.entry = "sample" =>
        LET ps == IF pipeline.detector_pixel_size = Nothing
                  THEN pipeline.resolution
                  ELSE TheValue(pipeline.detector_pixel_size)
            t == pipeOut.trace
            readout == IF pipeOp.view THEN BeforeView(pipeOut.img) ELSE pipeOut.img
            signal == readout.args[1]
            noise == readout.args[2]
            rendered == signal.args[1]
            ice == signal.args[2]
        IN  /\ readout.op = "add" /\ signal.op = "add"
            /\ rendered = render(pipeline, <<>>, FALSE).img
            /\ Unviewed(rendered)
            /\ ice.op = "irfftn"
            /\ ice.args[1] = Img("solvent.scatter", "", ps, <<>>)
            /\ noise = Img("detector.sample", "", ps, <<signal>>)
            /\ Cardinality(Positions(t, "crop")) = IF pipeOp.view THEN 1 ELSE 0
            /\ \A c \in Positions(t, "crop") :
                   \A n \in Positions(t, "detector.sample") : n < c
            /\ pipeOp.view =>
                   pipeOut.img =
                       view(pipeline, [img |-> readout, space |-> "real", trace |-> <<>>],
                            TRUE).img
            /\ ~pipeOp.view => Unviewed(pipeOut.img)

\* C10 witness: a viewed sample of a pipeline with a filter and a mask whose
\* detector defines no pixel size, so that the specimen's resolution is
\* used.
C10_Witness ==
    /\ pipeOp.entry = "sample" /\ pipeOp.view
    /\ pipeline.detector_pixel_size = Nothing
    /\ pipeline.resolution = 3
    /\ pipeline.filters = <<"F1">>
    /\ pipeline.masks = <<"M1">>
    /\ pipeOut.img.op = "mask"
    /\ BeforeView(pipeOut.img).args[2].at = 3

====
